---- MODULE Spec2Model ----
(***************************************************************************)
(* A model of obit_scraper.py: fetch_obit_content (the content extractor)  *)
(* and scrape_rss_feed (the feed rewriter).                                *)
(*                                                                         *)
(* Text is modelled as sequences of tokens.  A page body is a sequence of  *)
(* segments in document order; each segment has a character length, so     *)
(* that the slice resp.text[:500] can cut the body at a character offset.  *)
(***************************************************************************)
EXTENDS Integers, Sequences, FiniteSets, TLC

\* ------------------------------------------------------------------ bounds
\* the longest page body, in segments
MaxSegs == 3
\* the longest feed, in items
MaxItems == 3

\* ------------------------------------------------------- program constants
\* resp.text[:500]
ScanWindow == 500
\* len("are you human")
PhraseLen == 13

\* ------------------------------------------------------------- page bodies
\* A nested element of a marker div: <h3>text</h3>, <img [src=..]>,
\* <div [data-blog-inner="text"]>markup</div>, or any other element (<p>).
\* attr says whether the attribute the code looks at is present (src for img,
\* data-blog-inner="text" for div); val is the text / the src value / the
\* inner markup, as tokens.
Kid(tag, attr, val) == [tag |-> tag, attr |-> attr, val |-> val]

H3Plain == Kid("h3", FALSE, <<"Jane Doe">>)
H3Padded == Kid("h3", FALSE, <<" ", "Jane Doe", "\n">>)
H3Empty == Kid("h3", FALSE, <<>>)
ImgSrc == Kid("img", TRUE, <<"http://x/a.jpg">>)
ImgSrcB == Kid("img", TRUE, <<"http://x/b.jpg">>)
ImgNoSrc == Kid("img", FALSE, <<>>)
ImgEmptySrc == Kid("img", TRUE, <<>>)
InnerText == Kid("div", TRUE, <<"<p>", "She lived.", "</p>">>)
PlainDiv == Kid("div", FALSE, <<"<p>", "footer", "</p>">>)

\* a top-level segment of a body
Filler(n) == [k |-> "filler", len |-> n, case |-> "", comp |-> "", kids |-> <<>>]
\* an occurrence of the letters "are you human" in some letter case
PhraseText(c) == [k |-> "phrase", len |-> PhraseLen, case |-> c, comp |-> "", kids |-> <<>>]
\* <div data-blog-component="comp"> kids </div>
MarkerDiv(comp, kids) == [k |-> "div", len |-> 60, case |-> "", comp |-> comp, kids |-> kids]

\* a <div> without the data-blog-component attribute
PlainBlock == [k |-> "plain", len |-> 60, case |-> "", comp |-> "", kids |-> <<H3Plain, ImgSrc>>]

MarkerDivs ==
    { MarkerDiv("subtitle", <<H3Padded>>),
      MarkerDiv("subtitle", <<H3Empty, H3Plain>>),
      MarkerDiv("subtitle", <<ImgSrc, InnerText>>),
      MarkerDiv("image", <<ImgSrc, ImgSrcB>>),
      MarkerDiv("image", <<ImgNoSrc, ImgSrcB>>),
      MarkerDiv("image", <<ImgEmptySrc>>),
      MarkerDiv("image", <<H3Plain>>),
      MarkerDiv("text", <<PlainDiv, InnerText>>),
      MarkerDiv("text", <<PlainDiv>>),
      MarkerDiv("gallery", <<H3Plain, ImgSrc, InnerText>>) }

Segments ==
    MarkerDivs
    \cup { Filler(ScanWindow - PhraseLen), Filler(ScanWindow - PhraseLen + 1) }
    \cup { PhraseText("lower"), PhraseText("mixed") }
    \cup { PlainBlock }

SeqsUpTo(S, n) == UNION { [1..m -> S] : m \in 0..n }

Bodies == SeqsUpTo(Segments, MaxSegs)

\* an HTTP exchange: requests.get raised a RequestException (connection
\* error, timeout, or raise_for_status on a non-2xx answer), or it returned
\* a body
FailedResponse == [ok |-> FALSE, body |-> <<>>]
OkResponse(body) == [ok |-> TRUE, body |-> body]
Responses == { FailedResponse } \cup { OkResponse(b) : b \in Bodies }

\* ------------------------------------------------------ fetch_obit_content
\* the values fetch_obit_content returns: None, or a string (tokens)
None == [none |-> TRUE, html |-> <<>>]
Str(tokens) == [none |-> FALSE, html |-> tokens]

\* text[:n]: the segments that fit in the first n characters; a segment the
\* slice cuts through is left as a fragment of itself
RECURSIVE Slice(_, _)
Slice(text, n) ==
    IF text = <<>> \/ n <= 0 THEN <<>>
    ELSE IF Head(text).len <= n
         THEN <<Head(text)>> \o Slice(Tail(text), n - Head(text).len)
         ELSE <<[Head(text) EXCEPT !.k = "cut", !.len = n]>>

\* str.lower()
Lower(text) ==
    [i \in 1..Len(text) |->
        IF text[i].k = "phrase" THEN [text[i] EXCEPT !.case = "lower"] ELSE text[i]]

\* "are you human" in sample
ContainsPhrase(sample) ==
    \E i \in 1..Len(sample) : sample[i].k = "phrase" /\ sample[i].case = "lower"

\* faulty variant: the sample is not lower-cased
SampleHtmlNoLower(body) == Slice(body, ScanWindow)

\* sample_html = resp.text[:500].lower()
SampleHtml(body) == Lower(Slice(body, ScanWindow))

\* if "are you human" in sample_html
ChallengeDetected(body) == ContainsPhrase(SampleHtml(body))

\* soup.find_all('div', attrs={'data-blog-component': True})
IsMarkerDiv(seg) == seg.k = "div"
FindAll(body) == SelectSeq(body, IsMarkerDiv)

\* tag.find(...): the first nested element that matches, or NoKid
NoKid == Kid("", FALSE, <<>>)
RECURSIVE FindKid(_, _, _)
FindKid(kids, tag, needAttr) ==
    IF kids = <<>> THEN NoKid
    ELSE IF Head(kids).tag = tag /\ (needAttr => Head(kids).attr) THEN Head(kids)
    ELSE FindKid(Tail(kids), tag, needAttr)

IsSpace(tok) == tok \in {" ", "\n", "\t"}

\* get_text(strip=True)
RECURSIVE StripLeft(_)
StripLeft(s) == IF s # <<>> /\ IsSpace(Head(s)) THEN StripLeft(Tail(s)) ELSE s
RECURSIVE StripRight(_)
StripRight(s) ==
    IF s # <<>> /\ IsSpace(s[Len(s)]) THEN StripRight(SubSeq(s, 1, Len(s) - 1)) ELSE s
Strip(s) == StripRight(StripLeft(s))

\* f"<h3>{h3.get_text(strip=True)}</h3>"
SubtitleBlock(h3) == <<"<h3>">> \o Strip(h3.val) \o <<"</h3>">>
\* f'<img src="{image_src}" alt="obit image" />'
ImageBlock(img) == <<"<img src=\"">> \o img.val \o <<"\" alt=\"obit image\" />">>
\* str(text_div)
TextBlock(div) == <<"<div data-blog-inner=\"text\">">> \o div.val \o <<"</div>">>

\* img_tag and img_tag.get('src')
ImgUsable(img) == img # NoKid /\ img.attr /\ img.val # <<>>

\* one pass of the loop body: what the div appends to combined_html
HandleDiv(div) ==
    IF div.comp = "subtitle" THEN
        LET h3 == FindKid(div.kids, "h3", FALSE)
        IN  IF h3 # NoKid THEN <<SubtitleBlock(h3)>> ELSE <<>>
    ELSE IF div.comp = "image" THEN
        LET img_tag == FindKid(div.kids, "img", FALSE)
        IN  IF ImgUsable(img_tag) THEN <<ImageBlock(img_tag)>> ELSE <<>>
    ELSE IF div.comp = "text" THEN
        LET text_div == FindKid(div.kids, "div", TRUE)
        IN  IF text_div # NoKid THEN <<TextBlock(text_div)>> ELSE <<>>
    ELSE <<>>

\* the whole loop over content_divs
RECURSIVE CombinedHtml(_)
CombinedHtml(divs) ==
    IF divs = <<>> THEN <<>> ELSE HandleDiv(Head(divs)) \o CombinedHtml(Tail(divs))

\* "\n".join(blocks)
RECURSIVE Join(_)
Join(blocks) ==
    IF blocks = <<>> THEN <<>>
    ELSE IF Len(blocks) = 1 THEN blocks[1]
    ELSE blocks[1] \o <<"\n">> \o Join(Tail(blocks))

\* faulty variant: a failed request answers None, as a challenge does
FetchObitContentNoneOnError(resp) ==
    IF ~resp.ok THEN None
    ELSE IF ChallengeDetected(resp.body) THEN None
    ELSE Str(Join(CombinedHtml(FindAll(resp.body))))

\* fetch_obit_content(url, user_agent), given the exchange the request had
FetchObitContent(resp) ==
    IF ~resp.ok THEN Str(<<>>)
    ELSE IF ChallengeDetected(resp.body) THEN None
    ELSE Str(Join(CombinedHtml(FindAll(resp.body))))

\* ------------------------------------------------------------------- feeds
\* An <item>: link and title are "absent" (no such child element), "empty"
\* (the element is there and has no text, so .text is None) or "text";
\* description is the description child, when there is one, and its text.
NoDescription == [present |-> FALSE, text |-> <<>>]
Description(text) == [present |-> TRUE, text |-> text]
OldDescription == Description(<<"old obituary">>)
Item(link, title, d) == [link |-> link, title |-> title, description |-> d]

Items ==
    { Item("absent", "text", OldDescription),
      Item("absent", "text", NoDescription),
      Item("empty", "text", OldDescription),
      Item("text", "absent", NoDescription),
      Item("text", "empty", OldDescription),
      Item("text", "text", OldDescription),
      Item("text", "text", NoDescription) }

Feeds == SeqsUpTo(Items, MaxItems)

\* the input path: no such file; a path that exists and cannot be read as a
\* file; a file that is not well-formed XML; a well-formed document whose
\* root has no <channel> child; a feed
InputFiles ==
    { [status |-> st, items |-> <<>>] : st \in {"missing", "unreadable", "malformed"} }
    \cup { [status |-> st, items |-> f] : st \in {"nochannel", "ok"}, f \in Feeds }

\* the exchanges a run of the feed rewriter is given
ChallengeBody == <<Filler(ScanWindow - PhraseLen), PhraseText("mixed"),
                   MarkerDiv("subtitle", <<H3Padded>>)>>
ContentBody == <<MarkerDiv("subtitle", <<H3Padded>>), PlainBlock,
                 MarkerDiv("image", <<ImgSrc, ImgSrcB>>)>>
BareBody == <<PlainBlock, MarkerDiv("gallery", <<H3Plain, ImgSrc, InnerText>>)>>
FeedResponses ==
    { FailedResponse, OkResponse(ChallengeBody), OkResponse(ContentBody),
      OkResponse(BareBody) }

NoFile == [written |-> FALSE, items |-> <<>>]
FileOf(items) == [written |-> TRUE, items |-> items]

VARIABLES
    inputFile,      \* the file at input_file
    pc,             \* where scrape_rss_feed is
    tree,           \* the items of the parsed document, in document order
    i,              \* the loop index of enumerate(items, start=1)
    obit_html,      \* the local obit_html
    visitLog,       \* the items the loop has taken, in order
    fetchLog,       \* the requests issued, in order: item and exchange
    sleepLog,       \* the time.sleep calls, in order: the item each followed
    outFile,        \* the file at output_file
    writes,         \* how many times tree.write completed
    xpc,            \* where fetch_obit_content is
    xresp,          \* the exchange of its request
    content_divs,   \* the divs of its loop still to handle
    combined_html,  \* its local combined_html
    handled,        \* how many divs its loop has handled
    result          \* what it returned

feedVars == <<inputFile, pc, tree, i, obit_html, visitLog, fetchLog, sleepLog,
              outFile, writes>>
extVars == <<xpc, xresp, content_divs, combined_html, handled, result>>
vars == <<inputFile, pc, tree, i, obit_html, visitLog, fetchLog, sleepLog,
          outFile, writes, xpc, xresp, content_divs, combined_html, handled, result>>

NoResult == [none |-> FALSE, html |-> <<"(not returned)">>]

FeedIdle ==
    /\ pc = "idle" /\ inputFile = [status |-> "missing", items |-> <<>>]
    /\ tree = <<>> /\ i = 0 /\ obit_html = NoResult
    /\ visitLog = <<>> /\ fetchLog = <<>> /\ sleepLog = <<>>
    /\ outFile = NoFile /\ writes = 0

ExtIdle ==
    /\ xpc = "idle" /\ xresp = FailedResponse
    /\ content_divs = <<>> /\ combined_html = <<>> /\ handled = 0
    /\ result = NoResult

\* ----------------------------------------- fetch_obit_content, step by step
InitExtract ==
    /\ FeedIdle
    /\ xpc = "request" /\ xresp \in Responses
    /\ content_divs = <<>> /\ combined_html = <<>> /\ handled = 0
    /\ result = NoResult

\* requests.get / raise_for_status raised: return ""
XRequestFails ==
    /\ xpc = "request" /\ ~xresp.ok
    /\ result' = Str(<<>>)
    /\ xpc' = "returned"
    /\ UNCHANGED <<xresp, content_divs, combined_html, handled>>
    /\ UNCHANGED feedVars

XRequestOk ==
    /\ xpc = "request" /\ xresp.ok
    /\ xpc' = "scan"
    /\ UNCHANGED <<xresp, content_divs, combined_html, handled, result>>
    /\ UNCHANGED feedVars

\* "are you human" in sample_html: return None
XChallenge ==
    /\ xpc = "scan" /\ ChallengeDetected(xresp.body)
    /\ result' = None
    /\ xpc' = "returned"
    /\ UNCHANGED <<xresp, content_divs, combined_html, handled>>
    /\ UNCHANGED feedVars

\* BeautifulSoup(...), find_all, combined_html = []
XParse ==
    /\ xpc = "scan" /\ ~ChallengeDetected(xresp.body)
    /\ content_divs' = FindAll(xresp.body)
    /\ combined_html' = <<>>
    /\ xpc' = "loop"
    /\ UNCHANGED <<xresp, handled, result>>
    /\ UNCHANGED feedVars

\* faulty variant: the block is put in front of combined_html
XHandleDivPrepends ==
    /\ xpc = "loop" /\ content_divs # <<>>
    /\ combined_html' = HandleDiv(Head(content_divs)) \o combined_html
    /\ content_divs' = Tail(content_divs)
    /\ handled' = handled + 1
    /\ UNCHANGED <<xpc, xresp, result>>
    /\ UNCHANGED feedVars

\* one pass of for div in content_divs
XHandleDiv ==
    /\ xpc = "loop" /\ content_divs # <<>>
    /\ combined_html' = combined_html \o HandleDiv(Head(content_divs))
    /\ content_divs' = Tail(content_divs)
    /\ handled' = handled + 1
    /\ UNCHANGED <<xpc, xresp, result>>
    /\ UNCHANGED feedVars

\* return "\n".join(combined_html)
XReturn ==
    /\ xpc = "loop" /\ content_divs = <<>>
    /\ result' = Str(Join(combined_html))
    /\ xpc' = "returned"
    /\ UNCHANGED <<xresp, content_divs, combined_html, handled>>
    /\ UNCHANGED feedVars

NextExtract ==
    \/ XRequestFails
    \/ XRequestOk
    \/ XChallenge
    \/ XParse
    \/ XHandleDiv
    \/ XReturn

SpecExtract == InitExtract /\ [][NextExtract]_vars

\* the step-by-step run returns what the operator computes
XAgrees == xpc = "returned" => result = FetchObitContent(xresp)

\* ---------------------------------------------------------- scrape_rss_feed
\* f"<![CDATA[\n{obit_html}\n]]>"
Payload(html) == <<"<![CDATA[\n">> \o html \o <<"\n]]>">>

\* faulty variant: the description element is not created when the item has none
SetDescriptionIfPresent(item, html) ==
    IF item.description.present
    THEN [item EXCEPT !.description = Description(Payload(html))]
    ELSE item

\* desc_elem = item.find('description') or a new SubElement; its text is set
SetDescription(item, html) == [item EXCEPT !.description = Description(Payload(html))]

Init ==
    /\ ExtIdle
    /\ inputFile \in InputFiles
    /\ pc = "start"
    /\ tree = <<>> /\ i = 0 /\ obit_html = NoResult
    /\ visitLog = <<>> /\ fetchLog = <<>> /\ sleepLog = <<>>
    /\ outFile = NoFile /\ writes = 0

\* faulty variant: the return after "No <channel> found" is missing
ParseAbortFallsThrough ==
    /\ pc = "start"
    /\ inputFile.status \in {"missing", "malformed", "nochannel"}
    /\ IF inputFile.status = "nochannel"
       THEN tree' = inputFile.items /\ i' = 1 /\ pc' = "loop"
       ELSE pc' = "returned" /\ UNCHANGED <<tree, i>>
    /\ UNCHANGED <<inputFile, obit_html, visitLog, fetchLog, sleepLog, outFile, writes>>
    /\ UNCHANGED extVars

\* not os.path.exists / ET.ParseError / channel is None: print and return
ParseAbort ==
    /\ pc = "start"
    /\ inputFile.status \in {"missing", "malformed", "nochannel"}
    /\ pc' = "returned"
    /\ UNCHANGED <<inputFile, tree, i, obit_html, visitLog, fetchLog, sleepLog,
                   outFile, writes>>
    /\ UNCHANGED extVars

\* ET.parse raises an error that is no ParseError (the path is a directory,
\* or may not be read): nothing catches it
ParseRaises ==
    /\ pc = "start"
    /\ inputFile.status = "unreadable"
    /\ pc' = "raised_parse"
    /\ UNCHANGED <<inputFile, tree, i, obit_html, visitLog, fetchLog, sleepLog,
                   outFile, writes>>
    /\ UNCHANGED extVars

\* tree = ET.parse(...); items = channel.findall('item'); the loop starts
ParseOk ==
    /\ pc = "start"
    /\ inputFile.status = "ok"
    /\ tree' = inputFile.items
    /\ i' = 1
    /\ pc' = "loop"
    /\ UNCHANGED <<inputFile, obit_html, visitLog, fetchLog, sleepLog, outFile, writes>>
    /\ UNCHANGED extVars

\* the loop is exhausted
LoopExit ==
    /\ pc = "loop" /\ i > Len(tree)
    /\ pc' = "write"
    /\ UNCHANGED <<inputFile, tree, i, obit_html, visitLog, fetchLog, sleepLog,
                   outFile, writes>>
    /\ UNCHANGED extVars

\* faulty variant: the item without a link is given an empty description
SkipItemWritesDescription ==
    /\ pc = "loop" /\ i <= Len(tree)
    /\ tree[i].link = "absent"
    /\ tree' = [tree EXCEPT ![i] = SetDescription(tree[i], <<>>)]
    /\ visitLog' = Append(visitLog, i)
    /\ i' = i + 1
    /\ UNCHANGED <<inputFile, pc, obit_html, fetchLog, sleepLog, outFile, writes>>
    /\ UNCHANGED extVars

\* link_elem is None: warn and continue
SkipItem ==
    /\ pc = "loop" /\ i <= Len(tree)
    /\ tree[i].link = "absent"
    /\ visitLog' = Append(visitLog, i)
    /\ i' = i + 1
    /\ UNCHANGED <<inputFile, pc, tree, obit_html, fetchLog, sleepLog, outFile, writes>>
    /\ UNCHANGED extVars

\* link_elem.text.strip() or title_elem.text.strip() on a text of None:
\* AttributeError, which nothing catches
ItemRaises ==
    /\ pc = "loop" /\ i <= Len(tree)
    /\ tree[i].link # "absent"
    /\ tree[i].link = "empty" \/ tree[i].title = "empty"
    /\ visitLog' = Append(visitLog, i)
    /\ pc' = "raised_item"
    /\ UNCHANGED <<inputFile, tree, i, obit_html, fetchLog, sleepLog, outFile, writes>>
    /\ UNCHANGED extVars

\* obit_html = fetch_obit_content(url, user_agent)
FetchItem ==
    /\ pc = "loop" /\ i <= Len(tree)
    /\ tree[i].link = "text"
    /\ tree[i].title # "empty"
    /\ \E resp \in FeedResponses :
        /\ fetchLog' = Append(fetchLog, [item |-> i, resp |-> resp])
        /\ obit_html' = FetchObitContent(resp)
    /\ visitLog' = Append(visitLog, i)
    /\ pc' = "fetched"
    /\ UNCHANGED <<inputFile, tree, i, sleepLog, outFile, writes>>
    /\ UNCHANGED extVars

\* faulty variant: the description is set before the None test
HandleBlockedStores ==
    /\ pc = "fetched" /\ obit_html = None
    /\ tree' = [tree EXCEPT ![i] = SetDescription(tree[i], <<>>)]
    /\ pc' = "write"
    /\ UNCHANGED <<inputFile, i, obit_html, visitLog, fetchLog, sleepLog, outFile, writes>>
    /\ UNCHANGED extVars

\* faulty variant: continue in the place of break
HandleBlockedContinues ==
    /\ pc = "fetched" /\ obit_html = None
    /\ i' = i + 1
    /\ pc' = "loop"
    /\ UNCHANGED <<inputFile, tree, obit_html, visitLog, fetchLog, sleepLog, outFile, writes>>
    /\ UNCHANGED extVars

\* obit_html is None: break
HandleBlocked ==
    /\ pc = "fetched" /\ obit_html = None
    /\ pc' = "write"
    /\ UNCHANGED <<inputFile, tree, i, obit_html, visitLog, fetchLog, sleepLog,
                   outFile, writes>>
    /\ UNCHANGED extVars

StoreDescription ==
    /\ pc = "fetched" /\ obit_html # None
    /\ tree' = [tree EXCEPT ![i] = SetDescription(tree[i], obit_html.html)]
    /\ pc' = "sleep"
    /\ UNCHANGED <<inputFile, i, obit_html, visitLog, fetchLog, sleepLog, outFile, writes>>
    /\ UNCHANGED extVars

\* time.sleep(delay), the last statement of the loop body
Sleep ==
    /\ pc = "sleep"
    /\ sleepLog' = Append(sleepLog, i)
    /\ i' = i + 1
    /\ pc' = "loop"
    /\ UNCHANGED <<inputFile, tree, obit_html, visitLog, fetchLog, outFile, writes>>
    /\ UNCHANGED extVars

\* tree.write(output_file, ...) completes.  The file is kept as the document
\* it parses back to: the serialiser escapes the markup characters of every
\* text (the "<![CDATA[" of a description included), and a parser undoes it.
WriteOutput ==
    /\ pc = "write"
    /\ outFile' = FileOf(tree)
    /\ writes' = writes + 1
    /\ pc' = "done"
    /\ UNCHANGED <<inputFile, tree, i, obit_html, visitLog, fetchLog, sleepLog>>
    /\ UNCHANGED extVars

\* tree.write raises (the output path cannot be written): nothing catches it
WriteRaises ==
    /\ pc = "write"
    /\ pc' = "raised_write"
    /\ UNCHANGED <<inputFile, tree, i, obit_html, visitLog, fetchLog, sleepLog,
                   outFile, writes>>
    /\ UNCHANGED extVars

Next ==
    \/ ParseAbort
    \/ ParseRaises
    \/ ParseOk
    \/ LoopExit
    \/ SkipItem
    \/ ItemRaises
    \/ FetchItem
    \/ HandleBlocked
    \/ StoreDescription
    \/ Sleep
    \/ WriteOutput
    \/ WriteRaises

Spec == Init /\ [][Next]_vars

\* ===================================================================== claims
\* what the claims speak of, in terms of the run's state
N == Len(inputFile.items)
Input(j) == inputFile.items[j]
HasLink(j) == Input(j).link # "absent"
Fetches == 1..Len(fetchLog)
IsBlocked(e) == e.resp.ok /\ ChallengeDetected(e.resp.body)
IsFailed(e) == ~e.resp.ok
FetchedItems == { fetchLog[k].item : k \in Fetches }
ExchangeOf(j) == (CHOOSE e \in { fetchLog[k] : k \in Fetches } : e.item = j).resp
\* the description an item gets from the page of its own request
OwnDescription(j) ==
    Description(<<"<![CDATA[\n">> \o Join(CombinedHtml(FindAll(ExchangeOf(j).body)))
                \o <<"\n]]>">>)
EmptyPayload == <<"<![CDATA[\n", "\n]]>">>
Last(s) == s[Len(s)]
SameOrder ==
    /\ Len(tree) = N
    /\ \A j \in 1..N : tree[j].link = Input(j).link /\ tree[j].title = Input(j).title

\* ------------------------------------------------------------------------ C1
\* C1 as stated: when the fetch of item K is the first detected as blocked and
\* the run has ended, the linked items before K carry their new description,
\* items K..N are as in the input, the run did not raise, and the document was
\* written to the output path exactly once.
C1_AsStated ==
    \A k \in Fetches :
        (IsBlocked(fetchLog[k]) /\ pc \in {"done", "raised_write"}) =>
            LET K == fetchLog[k].item
            IN  /\ \A j \in 1..(K - 1) : HasLink(j) => tree[j].description = OwnDescription(j)
                /\ \A j \in K..N : tree[j] = Input(j)
                /\ pc = "done"
                /\ writes = 1 /\ outFile = FileOf(tree)

\* C1 as amended: from the moment the fetch of item K is detected as blocked,
\* the linked items before K carry their new description and items K..N are as
\* in the input; the run goes straight to the write; when the write completes
\* the document has been written exactly once, and the only way the run raises
\* is that this write fails, with nothing written.
C1_BlockedRunIsPartial ==
    \A k \in Fetches :
        IsBlocked(fetchLog[k]) =>
            LET K == fetchLog[k].item
            IN  /\ \A j \in 1..(K - 1) : HasLink(j) => tree[j].description = OwnDescription(j)
                /\ \A j \in K..N : tree[j] = Input(j)
                /\ pc \in {"fetched", "write", "done", "raised_write"}
                /\ pc = "done" => writes = 1 /\ outFile = FileOf(tree)
                /\ pc # "done" => writes = 0 /\ outFile = NoFile

C1_Witness ==
    /\ pc = "done" /\ writes = 1
    /\ \E k \in Fetches :
        /\ IsBlocked(fetchLog[k])
        /\ fetchLog[k].item > 1 /\ fetchLog[k].item < N
        /\ \E j \in 1..(fetchLog[k].item - 1) :
            HasLink(j) /\ tree[j].description # Input(j).description

\* ------------------------------------------------------------------------ C2
\* C2: once the input file exists, parses and has a channel, no per-item
\* condition stops the run before the output is written: the run never ends in
\* an exception raised while an item is being handled.
C2_AsStated == inputFile.status = "ok" => pc # "raised_item"

\* ------------------------------------------------------------------------ C3
\* C3: the delay is taken only between two items: the items followed by a sleep
\* are the processed items other than the last item of the feed, and none after
\* a halt; no sleep separates the last item from the write.
C3_AsStated ==
    /\ \A k \in 1..Len(sleepLog) : sleepLog[k] < Len(tree)
    /\ pc \in {"write", "done"} =>
        \A j \in FetchedItems :
            (~IsBlocked(Last(fetchLog)) \/ j # Last(fetchLog).item) /\ j < Len(tree)
                => \E k \in 1..Len(sleepLog) : sleepLog[k] = j

\* ------------------------------------------------------------------------ C4
\* C4: when the input path does not exist, is not well-formed XML, or has no
\* channel, the run returns before any item is handled: no item is visited, no
\* page is fetched, no delay is taken, no output file is written.
C4_AbortsBeforeWork ==
    inputFile.status \in {"missing", "malformed", "nochannel"} =>
        /\ pc \in {"start", "returned"}
        /\ visitLog = <<>> /\ fetchLog = <<>> /\ sleepLog = <<>>
        /\ outFile = NoFile /\ writes = 0

C4_Witness ==
    /\ pc = "returned" /\ inputFile.status = "nochannel"
    /\ \E j \in 1..N : Input(j).link = "text" /\ Input(j).title = "text"

\* ------------------------------------------------------------------------ C5
\* C5: an item with no link element is never fetched, stays as it is in the
\* input (its description neither changed nor created), and once the loop has
\* taken it, the run is at the next item in document order (or, after the last
\* item, at the write).
C5_LinklessItemSkipped ==
    \A j \in 1..Len(tree) :
        tree[j].link = "absent" =>
            /\ j \notin FetchedItems
            /\ tree[j] = Input(j)
            /\ (visitLog # <<>> /\ Last(visitLog) = j) =>
                /\ i = j + 1
                /\ pc = "loop" \/ (j = N /\ pc \in {"write", "done", "raised_write"})

C5_Witness ==
    /\ pc = "done"
    /\ \E j \in 1..(N - 1) :
        /\ ~HasLink(j) /\ Input(j).description = OldDescription
        /\ (j + 1) \in FetchedItems
        /\ tree[j + 1].description # Input(j + 1).description
    /\ \E j \in 1..N : ~HasLink(j) /\ Input(j).description = NoDescription

\* ------------------------------------------------------------------------ C6
\* C6: a failed page fetch does not halt the run: the item's description is set
\* to the payload of an empty fragment, the same a page with no recognised
\* block gets, and the run goes on to the delay and the next item.
C6_FetchFailureIsEmptyContent ==
    \A k \in Fetches :
        LET j == fetchLog[k].item
            stored == (pc = "sleep" /\ i = j) \/ i > j
        IN  /\ IsFailed(fetchLog[k]) =>
                /\ (pc = "fetched" /\ i = j) \/ stored
                /\ stored => tree[j].description = Description(EmptyPayload)
            /\ (fetchLog[k].resp.ok /\ ~IsBlocked(fetchLog[k])
                    /\ CombinedHtml(FindAll(fetchLog[k].resp.body)) = <<>> /\ stored)
                => tree[j].description = Description(EmptyPayload)

C6_Witness ==
    /\ pc = "done"
    /\ \E k \in Fetches :
        /\ IsFailed(fetchLog[k])
        /\ k < Len(fetchLog)
        /\ Input(fetchLog[k].item).description = OldDescription
        /\ ~IsFailed(fetchLog[k + 1]) /\ ~IsBlocked(fetchLog[k + 1])
        /\ tree[fetchLog[k + 1].item].description # Description(EmptyPayload)

\* ------------------------------------------------------------------------ C7
\* C7 as stated: when the run is over and no fetch was blocked or failed, all N
\* items have a description equal to the CDATA-wrapped, newline-joined fragment
\* of their own page, and the items are in the input's order.
C7_AsStated ==
    (pc = "done" /\ \A k \in Fetches : ~IsBlocked(fetchLog[k]) /\ ~IsFailed(fetchLog[k])) =>
        /\ \A j \in 1..N : j \in FetchedItems /\ tree[j].description = OwnDescription(j)
        /\ SameOrder

\* C7 as amended: when the loop is over and no fetch was blocked or failed,
\* every item that has a link element has a description equal to the
\* CDATA-wrapped, newline-joined fragment of its own page (created when the
\* item had none), the items without a link element are as in the input, the
\* items are in the input's order, and a completed write holds this document.
C7_LinkedItemsRewritten ==
    (pc \in {"write", "done", "raised_write"}
        /\ \A k \in Fetches : ~IsBlocked(fetchLog[k]) /\ ~IsFailed(fetchLog[k])) =>
        /\ \A j \in 1..N :
            IF HasLink(j)
            THEN j \in FetchedItems /\ tree[j].description = OwnDescription(j)
            ELSE tree[j] = Input(j)
        /\ SameOrder
        /\ pc = "done" => outFile = FileOf(tree)

C7_Witness ==
    /\ pc = "done" /\ N >= 2
    /\ \A k \in Fetches : ~IsBlocked(fetchLog[k]) /\ ~IsFailed(fetchLog[k])
    /\ \E j \in 1..N : HasLink(j) /\ Input(j).description = NoDescription
    /\ \E j \in 1..N : HasLink(j) /\ Input(j).description = OldDescription
    /\ \E j \in 1..N : HasLink(j) /\ tree[j].description # Description(EmptyPayload)

\* ----------------------------------------------------------------------- C10
\* C10: the requests issued are a prefix of the feed's linked items in document
\* order, each item at most once; the description of an item is written before
\* the next request is issued; after a request is detected as blocked no
\* further item is fetched or visited.
LinkedItems == SelectSeq([j \in 1..N |-> j], HasLink)

C10_FetchesAreOrderedPrefix ==
    /\ Len(fetchLog) <= Len(LinkedItems)
    /\ \A k \in Fetches : fetchLog[k].item = LinkedItems[k]
    /\ \A k \in 1..Len(visitLog) : visitLog[k] = k
    /\ \A k \in Fetches :
        k < Len(fetchLog) =>
            /\ ~IsBlocked(fetchLog[k])
            /\ tree[fetchLog[k].item].description = OwnDescription(fetchLog[k].item)
    /\ (fetchLog # <<>> /\ IsBlocked(Last(fetchLog))) =>
        /\ Last(visitLog) = Last(fetchLog).item
        /\ i = Last(fetchLog).item

C10_Witness ==
    /\ pc = "done" /\ Len(fetchLog) >= 2 /\ Len(fetchLog) < Len(LinkedItems)
    /\ IsBlocked(Last(fetchLog))

\* ------------------------------------------------------------------------ C8
\* the character offset at which segment n of a body starts
RECURSIVE Offset(_, _)
Offset(body, n) == IF n <= 1 THEN 0 ELSE Offset(body, n - 1) + body[n - 1].len

\* the phrase, in any letter case, lies wholly within the first 500 characters
PhraseInPrefix(body) ==
    \E n \in 1..Len(body) :
        body[n].k = "phrase" /\ Offset(body, n) + PhraseLen <= ScanWindow

HasKid(d, P(_)) == \E n \in 1..Len(d.kids) : P(d.kids[n])
FirstKid(d, P(_)) ==
    d.kids[CHOOSE n \in 1..Len(d.kids) :
                P(d.kids[n]) /\ \A m \in 1..(n - 1) : ~P(d.kids[m])]
IsHeading(kid) == kid.tag = "h3"
IsImage(kid) == kid.tag = "img"
IsImageWithSource(kid) == kid.tag = "img" /\ kid.attr /\ kid.val # <<>>
IsTextInner(kid) == kid.tag = "div" /\ kid.attr

\* the block of a recognised marker element: a heading around the trimmed
\* text, an image reference, the text-inner element verbatim
Trimmed(text) ==
    LET keep == { n \in 1..Len(text) : ~IsSpace(text[n]) }
    IN  IF keep = {} THEN <<>>
        ELSE SubSeq(text, CHOOSE n \in keep : \A m \in keep : n <= m,
                          CHOOSE n \in keep : \A m \in keep : n >= m)
BlockOf(d) ==
    IF d.comp = "subtitle" THEN <<"<h3>">> \o Trimmed(FirstKid(d, IsHeading).val) \o <<"</h3>">>
    ELSE IF d.comp = "image"
         THEN <<"<img src=\"">> \o FirstKid(d, IsImageWithSource).val
                \o <<"\" alt=\"obit image\" />">>
    ELSE <<"<div data-blog-inner=\"text\">">> \o FirstKid(d, IsTextInner).val \o <<"</div>">>

\* recognised as C9 words it: the marker's value is subtitle, image or text and
\* the nested heading / image with a non-empty source / text-inner is present
RecognisedAsStated(d) ==
    \/ d.comp = "subtitle" /\ HasKid(d, IsHeading)
    \/ d.comp = "image" /\ HasKid(d, IsImageWithSource)
    \/ d.comp = "text" /\ HasKid(d, IsTextInner)

\* recognised as the code has it: for an image marker, the FIRST nested image
\* element is the one that must carry a non-empty source
Recognised(d) ==
    \/ d.comp = "subtitle" /\ HasKid(d, IsHeading)
    \/ d.comp = "image" /\ HasKid(d, IsImage) /\ IsImageWithSource(FirstKid(d, IsImage))
    \/ d.comp = "text" /\ HasKid(d, IsTextInner)

Markers(body) == SelectSeq(body, LAMBDA seg : seg.k = "div")
BlocksAsStated(body) ==
    LET r == SelectSeq(Markers(body), RecognisedAsStated)
    IN  [n \in 1..Len(r) |-> BlockOf(r[n])]
Blocks(body) ==
    LET r == SelectSeq(Markers(body), Recognised)
    IN  [n \in 1..Len(r) |-> BlockOf(r[n])]
ReturnedContent == xpc = "returned" /\ xresp.ok /\ result # None

====
